---- MODULE Spec2Model ----
(***************************************************************************)
(* Model of the CodePlayground component (src/components/code-playground   *)
(* .tsx): the React state `code` and `output`, the values of that state    *)
(* captured by the closures of the last render, and runCode, which         *)
(* compiles and calls the buffer text with `new Function(code)()` on the   *)
(* host's own thread and stores String(result) or String(error).           *)
(*                                                                         *)
(* A snippet is JavaScript text; the model runs a fixed set of snippet     *)
(* texts whose behaviour under `new Function(text)()` is written out as a  *)
(* list of host-visible operations followed by how the call ends.          *)
(*                                                                         *)
(* Around it: copyCode and the clipboard, the callbacks a snippet          *)
(* schedules, and the ConceptCard that mounts the playground with the      *)
(* question's example (src/components/concept-card.tsx).                   *)
(*                                                                         *)
(* Beside the playground: the question catalog and the page Home renders   *)
(* from it, the command menu and the listeners of the layout's components, *)
(* the MermaidDiagram's asynchronous renders, and ConceptCard's            *)
(* renderVisualization.                                                    *)
(***************************************************************************)
EXTENDS Integers, Sequences, FiniteSets, TLC

VARIABLES
    code,           \* useState(initialCode): the latest value of the `code` state
    output,         \* useState(""): the latest value of the `output` state
    renderedCode,   \* the `code` captured by runCode/copyCode of the last render
    renderedOutput, \* the `output` the last render put in the JSX
    stack,          \* activations of runCode that have not returned (innermost last)
    realConsole,    \* lines that reached the host's real console
    globals,        \* properties the host's global object has gained
    lastToast,      \* the last toast issued: "none", "success" or "error"
    uncaught,       \* TRUE once an exception has left runCode uncaught
    runs,           \* number of Run clicks by the user so far
    lastRun,        \* history: what the last activation of runCode to return did
    mounted,        \* TRUE while the card and its CodePlayground are mounted
    isExpanded,     \* ConceptCard's useState(false)
    initialCodeProp, \* the `initialCode` prop (the question's example)
    timers,         \* callbacks a snippet scheduled that have not run yet
    clipboard,      \* the last navigator.clipboard.writeText call and its toast
    providerMounted, \* TRUE while the CommandMenuProvider is mounted
    open,           \* CommandMenuProvider's useState(false)
    route,          \* the location router.push last navigated to
    keydownListeners, \* keydown listeners registered on document
    sidebarMounted, \* TRUE while the Sidebar is mounted
    hashListeners,  \* hashchange listeners registered on window
    floatingMounted, \* TRUE while the FloatingNav is mounted
    observers,      \* the IntersectionObservers created and not disconnected
    renders,        \* renders of the three components since the page loaded
    lastInput,      \* history: the last input the command menu handled
    page,           \* the sections Home has rendered so far, in document order
    hash,           \* the id of the anchor last followed ("" for none)
    chart,          \* MermaidDiagram's `chart` prop
    pending,        \* mermaid.render promises not yet resolved, in call order
    container,      \* innerHTML of the diagram's container element
    diagramMounted, \* TRUE while the MermaidDiagram is mounted
    visualization,  \* ConceptCard's `visualization` prop
    rendered        \* what renderVisualization returned for it

vars == <<code, output, renderedCode, renderedOutput, stack, realConsole,
          globals, lastToast, uncaught, runs, lastRun, mounted, isExpanded,
          initialCodeProp, timers, clipboard, providerMounted, open, route,
          keydownListeners, sidebarMounted, hashListeners, floatingMounted,
          observers, renders, lastInput, page, hash, chart, pending,
          container, diagramMounted, visualization, rendered>>

playground == <<code, output, renderedCode, renderedOutput, stack,
                realConsole, globals, lastToast, uncaught, runs, lastRun,
                mounted, isExpanded, initialCodeProp, timers, clipboard>>

shell == <<providerMounted, open, route, keydownListeners, sidebarMounted,
           hashListeners, floatingMounted, observers, renders, lastInput>>

catalog == <<page, hash>>

diagram == <<chart, pending, container, diagramMounted>>

viz == <<visualization, rendered>>

site == <<shell, catalog, diagram, viz>>

card == <<mounted, isExpanded, initialCodeProp>>

(***************************************************************************)
(* Bounds                                                                  *)
(***************************************************************************)
MaxRuns == 2

MaxDepth == 2

MaxRenders == 3

MaxPending == 3

(***************************************************************************)
(* JavaScript values and String(v)                                         *)
(***************************************************************************)
JsVal(t, n, name, s) == [t |-> t, n |-> n, name |-> name, s |-> s]

Undefined == JsVal("undefined", 0, "", "")

Num(n) == JsVal("number", n, "", "")

Str(s) == JsVal("string", 0, "", s)

ErrorObj(name, msg) == JsVal("error", 0, name, msg)

NullProto == JsVal("nullproto", 0, "", "")

Digit(d) ==
    CASE d = 0 -> "0" [] d = 1 -> "1" [] d = 2 -> "2" [] d = 3 -> "3"
      [] d = 4 -> "4" [] d = 5 -> "5" [] d = 6 -> "6" [] d = 7 -> "7"
      [] d = 8 -> "8" [] d = 9 -> "9"

RECURSIVE NumToStr(_)
NumToStr(n) ==
    IF n < 0 THEN "-" \o NumToStr(0 - n)
    ELSE IF n < 10 THEN Digit(n)
    ELSE NumToStr(n \div 10) \o Digit(n % 10)

ErrorToString(e) ==
    IF e.name = "" THEN e.s
    ELSE IF e.s = "" THEN e.name
    ELSE e.name \o ": " \o e.s

Converted(s) == [threw |-> FALSE, s |-> s, err |-> Undefined]

ConversionThrows(e) == [threw |-> TRUE, s |-> "", err |-> e]

JsString(v) ==
    CASE v.t = "undefined" -> Converted("undefined")
      [] v.t = "number"    -> Converted(NumToStr(v.n))
      [] v.t = "string"    -> Converted(v.s)
      [] v.t = "error"     -> Converted(ErrorToString(v))
      [] v.t = "nullproto" ->
            ConversionThrows(ErrorObj("TypeError",
                                      "Cannot convert object to primitive value"))

(***************************************************************************)
(* Snippets: what `new Function(text)()` does for each text                *)
(***************************************************************************)
Log(s) == [op |-> "log", s |-> s]

SetGlobal(s) == [op |-> "global", s |-> s]

SetValue(s) == [op |-> "edit", s |-> s]

ClickRun == [op |-> "click", s |-> ""]

TestGlobal(s) == [op |-> "test", s |-> s]

SetTimeout(s) == [op |-> "timer", s |-> s]

Returns(v) == [k |-> "return", v |-> v]

Throws(v) == [k |-> "throw", v |-> v]

CompileError(msg) == [k |-> "syntax", v |-> ErrorObj("SyntaxError", msg)]

Loops == [k |-> "loop", v |-> Undefined]

ReturnsSeen == [k |-> "returnSeen", v |-> Undefined]

Prog(ops, end) == [ops |-> ops, end |-> end]

T_Empty == ""

T_Add == "return 2 + 2;"

T_Hi == "return 'hi';"

T_Blank == "return '';"

T_Throw == "throw new Error('bad');"

T_Loop == "while(true){}"

T_Log == "console.log('a'); console.log('b'); return 4;"

T_Global == "window.leak = 1;"

T_Click == "document.querySelectorAll('button')[1].click(); return 1;"

T_SetValue == "monaco.editor.getModels()[0].setValue('return 2 + 2;');"

T_RetNullProto == "return Object.create(null);"

T_ThrowNullProto == "throw Object.create(null);"

T_Syntax == "console.log('a'); return (;"

T_JsonParse == "return JSON.parse('{');"

T_Seen == "const seen = 'leak' in window; window.leak = 1; return seen ? 'again' : 'first';"

T_Timer == "setTimeout(() => { window.leak = 1; }, 1000);"

Texts == {T_Empty, T_Add, T_Hi, T_Blank, T_Throw, T_Loop, T_Log, T_Global,
          T_Click, T_SetValue, T_RetNullProto, T_ThrowNullProto, T_Syntax,
          T_JsonParse, T_Seen, T_Timer}

Program(text) ==
    CASE text = T_Empty  -> Prog(<<>>, Returns(Undefined))
      [] text = T_Add    -> Prog(<<>>, Returns(Num(2 + 2)))
      [] text = T_Hi     -> Prog(<<>>, Returns(Str("hi")))
      [] text = T_Blank  -> Prog(<<>>, Returns(Str("")))
      [] text = T_Throw  -> Prog(<<>>, Throws(ErrorObj("Error", "bad")))
      [] text = T_Loop   -> Prog(<<>>, Loops)
      [] text = T_Log    -> Prog(<<Log("a"), Log("b")>>, Returns(Num(4)))
      [] text = T_Global -> Prog(<<SetGlobal("leak")>>, Returns(Undefined))
      [] text = T_Click  -> Prog(<<ClickRun>>, Returns(Num(1)))
      [] text = T_SetValue -> Prog(<<SetValue(T_Add)>>, Returns(Undefined))
      [] text = T_RetNullProto   -> Prog(<<>>, Returns(NullProto))
      [] text = T_ThrowNullProto -> Prog(<<>>, Throws(NullProto))
      [] text = T_Syntax -> Prog(<<>>, CompileError("Unexpected token ';'"))
      [] text = T_JsonParse ->
            Prog(<<>>, Throws(ErrorObj("SyntaxError",
                                       "Unexpected end of JSON input")))
      [] text = T_Seen   ->
            Prog(<<TestGlobal("leak"), SetGlobal("leak")>>, ReturnsSeen)
      [] text = T_Timer  -> Prog(<<SetTimeout("leak")>>, Returns(Undefined))

EndKind(end) == IF end.k = "returnSeen" THEN "return" ELSE end.k

EndValue(end, f) ==
    IF end.k = "returnSeen"
    THEN Str(IF f.seen THEN "again" ELSE "first")
    ELSE end.v

StackOverflow == ErrorObj("RangeError", "Maximum call stack size exceeded")

(***************************************************************************)
(* runCode's try/catch: what it stores and reports for a call that ended   *)
(* by returning (threw = FALSE) or by throwing (threw = TRUE) the value v  *)
(***************************************************************************)
Stored(s, toast) == [set |-> TRUE, out |-> s, toast |-> toast, escaped |-> FALSE]

Escaped == [set |-> FALSE, out |-> "", toast |-> "none", escaped |-> TRUE]

CatchBranch(error) ==
    LET r == JsString(error)
    IN  IF r.threw THEN Escaped ELSE Stored(r.s, "error")

TryBranch(result) ==
    LET r == JsString(result)
    IN  IF r.threw THEN CatchBranch(r.err) ELSE Stored(r.s, "success")

RunResult(threw, v) == IF threw THEN CatchBranch(v) ELSE TryBranch(v)

(***************************************************************************)
(* Editor.onChange: setCode(value || "")                                   *)
(***************************************************************************)
NoValue == [def |-> FALSE, s |-> ""]

Value(s) == [def |-> TRUE, s |-> s]

OrEmpty_String(value) == IF value.def THEN value.s ELSE "undefined"

OrEmpty(value) == IF value.def /\ value.s # "" THEN value.s ELSE ""

EditorValues == {NoValue} \cup {Value(t) : t \in Texts}

(***************************************************************************)
(* State                                                                   *)
(***************************************************************************)
InitialCode == T_Add

Examples == {T_Add, T_Hi}

NoRun == [text |-> "", kind |-> "none", v |-> Undefined,
          logs |-> <<>>, set |-> FALSE, out |-> "", toast |-> "none",
          depth |-> 0]

Frame(text, buf) ==
    [text |-> text, buf |-> buf, pc |-> 1, logs |-> <<>>, seen |-> FALSE]

NoCopy == [st |-> "none", text |-> "", toast |-> "none"]

PlaygroundInit ==
    /\ code = InitialCode
    /\ output = ""
    /\ renderedCode = InitialCode
    /\ renderedOutput = ""
    /\ stack = <<>>
    /\ realConsole = <<>>
    /\ globals = {}
    /\ lastToast = "none"
    /\ uncaught = FALSE
    /\ runs = 0
    /\ lastRun = NoRun
    /\ mounted = TRUE
    /\ isExpanded = FALSE
    /\ initialCodeProp = InitialCode
    /\ timers = {}
    /\ clipboard = NoCopy

Idle == stack = <<>>

Top == stack[Len(stack)]

Below == SubSeq(stack, 1, Len(stack) - 1)

Advance(f) == [f EXCEPT !.pc = f.pc + 1]

(***************************************************************************)
(* The user edits the buffer: Editor.onChange                              *)
(***************************************************************************)
OnChange(value) ==
    /\ mounted
    /\ Idle
    /\ code' = OrEmpty(value)
    /\ UNCHANGED site
    /\ UNCHANGED <<output, renderedCode, renderedOutput, stack, realConsole,
                   globals, lastToast, uncaught, runs, lastRun, card, timers,
                   clipboard>>

(***************************************************************************)
(* React re-renders the component: the closures and the JSX take the       *)
(* current state                                                           *)
(***************************************************************************)
Render ==
    /\ mounted
    /\ Idle
    /\ renderedCode # code \/ renderedOutput # output
    /\ renderedCode' = code
    /\ renderedOutput' = output
    /\ UNCHANGED site
    /\ UNCHANGED <<code, output, stack, realConsole, globals, lastToast,
                   uncaught, runs, lastRun, card, timers, clipboard>>

(***************************************************************************)
(* The user clicks Run: runCode is entered with the closure's `code`       *)
(***************************************************************************)
RunClick ==
    /\ mounted
    /\ Idle
    /\ runs < MaxRuns
    /\ runs' = runs + 1
    /\ stack' = <<Frame(renderedCode, code)>>
    /\ UNCHANGED site
    /\ UNCHANGED <<code, output, renderedCode, renderedOutput, realConsole,
                   globals, lastToast, uncaught, lastRun, card, timers,
                   clipboard>>

(***************************************************************************)
(* runCode returns: the try or the catch branch stores and reports         *)
(***************************************************************************)
Finish(f, kind, threw, v) ==
    LET r == RunResult(threw, v)
    IN  /\ output' = IF r.set THEN r.out ELSE output
        /\ lastToast' = IF r.set THEN r.toast ELSE lastToast
        /\ uncaught' = (uncaught \/ r.escaped)
        /\ lastRun' = [text |-> f.text, kind |-> kind, v |-> v,
                       logs |-> f.logs, set |-> r.set, out |-> r.out,
                       toast |-> r.toast, depth |-> Len(stack)]

RunReturn ==
    /\ ~Idle
    /\ LET f == Top
           p == Program(f.text)
       IN  /\ f.pc > Len(p.ops)
           /\ p.end.k # "loop"
           /\ Finish(f, EndKind(p.end), EndKind(p.end) # "return",
                     EndValue(p.end, f))
    /\ stack' = Below
    /\ UNCHANGED site
    /\ UNCHANGED <<code, renderedCode, renderedOutput, realConsole, globals,
                   runs, card, timers, clipboard>>

(***************************************************************************)
(* The snippet performs its next operation on the host                     *)
(***************************************************************************)
SnippetLog ==
    /\ ~Idle
    /\ LET f == Top
           p == Program(f.text)
       IN  /\ f.pc <= Len(p.ops)
           /\ p.ops[f.pc].op = "log"
           /\ realConsole' = Append(realConsole, p.ops[f.pc].s)
           /\ stack' = Below \o <<[Advance(f) EXCEPT
                                     !.logs = Append(f.logs, p.ops[f.pc].s)]>>
    /\ UNCHANGED site
    /\ UNCHANGED <<code, output, renderedCode, renderedOutput, globals,
                   lastToast, uncaught, runs, lastRun, card, timers,
                   clipboard>>

SnippetGlobal ==
    /\ ~Idle
    /\ LET f == Top
           p == Program(f.text)
       IN  /\ f.pc <= Len(p.ops)
           /\ p.ops[f.pc].op = "global"
           /\ globals' = globals \cup {p.ops[f.pc].s}
           /\ stack' = Below \o <<Advance(f)>>
    /\ UNCHANGED site
    /\ UNCHANGED <<code, output, renderedCode, renderedOutput, realConsole,
                   lastToast, uncaught, runs, lastRun, card, timers,
                   clipboard>>

SnippetTestGlobal ==
    /\ ~Idle
    /\ LET f == Top
           p == Program(f.text)
       IN  /\ f.pc <= Len(p.ops)
           /\ p.ops[f.pc].op = "test"
           /\ stack' = Below \o <<[Advance(f) EXCEPT
                                     !.seen = (p.ops[f.pc].s \in globals)]>>
    /\ UNCHANGED site
    /\ UNCHANGED <<code, output, renderedCode, renderedOutput, realConsole,
                   globals, lastToast, uncaught, runs, lastRun, card, timers,
                   clipboard>>

SnippetSetTimeout ==
    /\ ~Idle
    /\ LET f == Top
           p == Program(f.text)
       IN  /\ f.pc <= Len(p.ops)
           /\ p.ops[f.pc].op = "timer"
           /\ timers' = timers \cup {p.ops[f.pc].s}
           /\ stack' = Below \o <<Advance(f)>>
    /\ UNCHANGED site
    /\ UNCHANGED <<code, output, renderedCode, renderedOutput, realConsole,
                   globals, lastToast, uncaught, runs, lastRun, card,
                   clipboard>>

SnippetSetValue ==
    /\ ~Idle
    /\ LET f == Top
           p == Program(f.text)
       IN  /\ f.pc <= Len(p.ops)
           /\ p.ops[f.pc].op = "edit"
           /\ code' = OrEmpty(Value(p.ops[f.pc].s))
           /\ stack' = Below \o <<Advance(f)>>
    /\ UNCHANGED site
    /\ UNCHANGED <<output, renderedCode, renderedOutput, realConsole, globals,
                   lastToast, uncaught, runs, lastRun, card, timers,
                   clipboard>>

SnippetClickRun ==
    /\ ~Idle
    /\ LET f == Top
           p == Program(f.text)
       IN  /\ f.pc <= Len(p.ops)
           /\ p.ops[f.pc].op = "click"
           /\ Len(stack) < MaxDepth
           /\ stack' = Below \o <<Advance(f), Frame(renderedCode, code)>>
    /\ UNCHANGED site
    /\ UNCHANGED <<code, output, renderedCode, renderedOutput, realConsole,
                   globals, lastToast, uncaught, runs, lastRun, card, timers,
                   clipboard>>

SnippetStackOverflow ==
    /\ ~Idle
    /\ LET f == Top
           p == Program(f.text)
       IN  /\ f.pc <= Len(p.ops)
           /\ p.ops[f.pc].op = "click"
           /\ Len(stack) >= MaxDepth
           /\ Finish(f, "throw", TRUE, StackOverflow)
    /\ stack' = Below
    /\ UNCHANGED site
    /\ UNCHANGED <<code, renderedCode, renderedOutput, realConsole, globals,
                   runs, card, timers, clipboard>>

(***************************************************************************)
(* A callback scheduled by a snippet runs once the host thread is free;    *)
(* nothing cancels it, so it also runs after the component has unmounted   *)
(***************************************************************************)
TimerFire ==
    /\ Idle
    /\ \E name \in timers :
          /\ timers' = timers \ {name}
          /\ globals' = globals \cup {name}
    /\ UNCHANGED site
    /\ UNCHANGED <<code, output, renderedCode, renderedOutput, stack,
                   realConsole, lastToast, uncaught, runs, lastRun, card,
                   clipboard>>

(***************************************************************************)
(* copyCode: writeText is started with the closure's `code` and the        *)
(* success toast is issued at once; the write settles later                *)
(***************************************************************************)
CopyClick ==
    /\ mounted
    /\ Idle
    /\ clipboard' = [st |-> "pending", text |-> renderedCode,
                     toast |-> "success"]
    /\ UNCHANGED site
    /\ UNCHANGED <<code, output, renderedCode, renderedOutput, stack,
                   realConsole, globals, lastToast, uncaught, runs, lastRun,
                   card, timers>>

ClipboardSettle(ok) ==
    /\ Idle
    /\ clipboard.st = "pending"
    /\ clipboard' = [clipboard EXCEPT !.st = IF ok THEN "written" ELSE "rejected"]
    /\ UNCHANGED site
    /\ UNCHANGED <<code, output, renderedCode, renderedOutput, stack,
                   realConsole, globals, lastToast, uncaught, runs, lastRun,
                   card, timers>>

(***************************************************************************)
(* ConceptCard: the expand button, a new `example` prop, and the card      *)
(* leaving and re-entering the page                                        *)
(***************************************************************************)
ToggleExpanded ==
    /\ mounted
    /\ Idle
    /\ isExpanded' = ~isExpanded
    /\ UNCHANGED site
    /\ UNCHANGED <<code, output, renderedCode, renderedOutput, stack,
                   realConsole, globals, lastToast, uncaught, runs, lastRun,
                   mounted, initialCodeProp, timers, clipboard>>

PropChange(example) ==
    /\ mounted
    /\ Idle
    /\ example # initialCodeProp
    /\ initialCodeProp' = example
    /\ UNCHANGED site
    /\ UNCHANGED <<code, output, renderedCode, renderedOutput, stack,
                   realConsole, globals, lastToast, uncaught, runs, lastRun,
                   mounted, isExpanded, timers, clipboard>>

Unmount ==
    /\ mounted
    /\ Idle
    /\ mounted' = FALSE
    /\ UNCHANGED site
    /\ UNCHANGED <<code, output, renderedCode, renderedOutput, stack,
                   realConsole, globals, lastToast, uncaught, runs, lastRun,
                   isExpanded, initialCodeProp, timers, clipboard>>

Remount ==
    /\ ~mounted
    /\ mounted' = TRUE
    /\ isExpanded' = FALSE
    /\ code' = initialCodeProp
    /\ output' = ""
    /\ renderedCode' = initialCodeProp
    /\ renderedOutput' = ""
    /\ UNCHANGED site
    /\ UNCHANGED <<stack, realConsole, globals, lastToast, uncaught, runs,
                   lastRun, initialCodeProp, timers, clipboard>>

(***************************************************************************)
(* The question catalog (src/lib/data): a Question record keeps the three  *)
(* fields the page, the navigation lists and the command menu read         *)
(***************************************************************************)
Question(id, category, number) ==
    [id |-> id, category |-> category, number |-> number]

(* Each category's index module: the questions it imports and the list    *)
(* it exports                                                              *)
CoreJavaScript_questions ==
    LET varLetConst ==
            Question("var-let-const", "Core JavaScript", 1)
        hoisting ==
            Question("hoisting", "Core JavaScript", 2)
        thisKeyword ==
            Question("this-keyword", "Core JavaScript", 3)
        promises ==
            Question("promises", "Core JavaScript", 4)
        eventLoop ==
            Question("event-loop", "Core JavaScript", 5)
        closures ==
            Question("closures", "Core JavaScript", 6)
        dataTypes ==
            Question("data-types", "Core JavaScript", 7)
        nullUndefined ==
            Question("null-undefined", "Core JavaScript", 8)
        callbackFunctions ==
            Question("callback-functions", "Core JavaScript", 9)
        errorHandling ==
            Question("error-handling", "Core JavaScript", 10)
    IN  <<varLetConst, hoisting, thisKeyword, promises, eventLoop, closures,
          dataTypes, nullUndefined, callbackFunctions, errorHandling>>

AsyncJavaScript_questions ==
    LET setTimeoutVsInterval ==
            Question("set-timeout-vs-interval", "Async JavaScript", 11)
        promisesExplained ==
            Question("promises-explained", "Async JavaScript", 15)
        asyncVsCallbacks ==
            Question("async-vs-callbacks", "Async JavaScript", 14)
        eventLoop ==
            Question("event-loop", "Async JavaScript", 16)
        handlingMultiplePromises ==
            Question("handling-multiple-promises", "Async JavaScript", 15)
    IN  <<setTimeoutVsInterval, promisesExplained, asyncVsCallbacks,
          eventLoop, handlingMultiplePromises>>

FancyFeatures_questions ==
    LET higherOrderFunctions ==
            Question("higher-order-functions", "Fancy Features in JavaScript", 16)
        destructuring ==
            Question("destructuring", "Fancy Features in JavaScript", 17)
        templateLiterals ==
            Question("template-literals", "Fancy Features in JavaScript", 18)
        spreadOperator ==
            Question("spread-operator", "Fancy Features in JavaScript", 19)
        restParameter ==
            Question("rest-parameter", "Fancy Features in JavaScript", 20)
    IN  <<higherOrderFunctions, destructuring, templateLiterals,
          spreadOperator, restParameter>>

ObjectsArrays_questions ==
    LET destructuring ==
            Question("destructuring", "Objects and Arrays", 17)
        objectVsArray ==
            Question("object-vs-array", "Objects and Arrays", 21)
        cloning ==
            Question("cloning", "Objects and Arrays", 22)
        objectMethods ==
            Question("object-methods", "Objects and Arrays", 23)
        mapMethod ==
            Question("map-method", "Objects and Arrays", 24)
        mapVsForEach ==
            Question("map-vs-foreach", "Objects and Arrays", 25)
    IN  <<destructuring, objectVsArray, cloning, objectMethods, mapMethod,
          mapVsForEach>>

SpecialTheory_questions ==
    LET eventDelegation ==
            Question("event-delegation", "Special Theory", 26)
        jsModules ==
            Question("js-modules", "Special Theory", 27)
        prototypeChain ==
            Question("prototype-chain", "Special Theory", 28)
        bindCallApply ==
            Question("bind-call-apply", "Special Theory", 29)
        equalityComparisons ==
            Question("equality-comparisons", "Special Theory", 30)
    IN  <<eventDelegation, jsModules, prototypeChain, bindCallApply,
          equalityComparisons>>

Frontend_questions ==
    LET dom ==
            Question("dom", "Frontend Development", 31)
        preventDefaultPropagation ==
            Question("prevent-default-propagation", "Frontend Development", 32)
        syncVsAsync ==
            Question("sync-vs-async", "Frontend Development", 33)
        eventObjectVsCustomEvent ==
            Question("event-object-vs-custom-event", "Frontend Development", 34)
        optimizingPerformance ==
            Question("optimizing-performance", "Frontend Development", 35)
    IN  <<dom, preventDefaultPropagation, syncVsAsync,
          eventObjectVsCustomEvent, optimizingPerformance>>

(* questions/index.ts: the combined list and the categories over it *)
questions ==
    CoreJavaScript_questions \o AsyncJavaScript_questions
        \o FancyFeatures_questions \o ObjectsArrays_questions
        \o SpecialTheory_questions \o Frontend_questions

getAllQuestions == questions

Category(id, name, qs) == [id |-> id, name |-> name, questions |-> qs]

categories ==
    <<Category("core-javascript", "Core JavaScript", CoreJavaScript_questions),
      Category("async-javascript", "Async JavaScript",
               AsyncJavaScript_questions),
      Category("fancy-features", "Fancy Features", FancyFeatures_questions),
      Category("objects-arrays", "Objects and Arrays",
               ObjectsArrays_questions),
      Category("special-theory", "Special Theory", SpecialTheory_questions),
      Category("frontend", "Frontend Development", Frontend_questions)>>

(* lib/data/questions.ts: the file module of the same name as the          *)
(* directory, with its own list, getAllQuestions and categories            *)
QuestionsTs_questions ==
    <<Question("var-let-const", "Core JavaScript", 1),
      Question("hoisting", "Core JavaScript", 2),
      Question("this-keyword", "Core JavaScript", 3),
      Question("promises", "Core JavaScript", 4),
      Question("event-loop", "Core JavaScript", 5),
      Question("closures", "Core JavaScript", 6)>>

QuestionsTs_getAllQuestions == QuestionsTs_questions

SelectSeq_category(qs, name) ==
    LET Keep(q) == q.category = name IN SelectSeq(qs, Keep)

QuestionsTs_categories ==
    <<Category("core-javascript", "Core JavaScript",
               SelectSeq_category(QuestionsTs_questions, "Core JavaScript")),
      Category("async-javascript", "Async JavaScript",
               SelectSeq_category(QuestionsTs_questions, "Async JavaScript")),
      Category("fancy-features", "Fancy Features",
               SelectSeq_category(QuestionsTs_questions, "Fancy Features")),
      Category("objects-arrays", "Objects and Arrays",
               SelectSeq_category(QuestionsTs_questions,
                                  "Objects and Arrays")),
      Category("special-theory", "Special Theory",
               SelectSeq_category(QuestionsTs_questions, "Special Theory")),
      Category("frontend", "Frontend Development",
               SelectSeq_category(QuestionsTs_questions,
                                  "Frontend Development"))>>

(* What the two import paths resolve to.  "@/lib/data/questions" names     *)
(* both questions.ts and the directory questions/; module resolution tries *)
(* the file before the directory's index.  "@/lib/data" is the package     *)
(* index, which re-exports the categories of questions/index.ts.           *)
CommandMenu_getAllQuestions == QuestionsTs_getAllQuestions

LibData_categories == categories

(* The product requirements' numbering of the catalog *)
PrdQuestionCount == 35

PrdNumbers(name) ==
    CASE name = "Core JavaScript" -> 1..10
      [] name = "Async JavaScript" -> 11..15
      [] name = "Fancy Features" -> 16..20
      [] name = "Objects and Arrays" -> 21..25
      [] name = "Special Theory" -> 26..30
      [] name = "Frontend Development" -> 31..35
      [] OTHER -> {}

(***************************************************************************)
(* Home: one section per question of every category, in list order; each   *)
(* ConceptCard is a <section id={id}> under its category's heading         *)
(***************************************************************************)
Range(s) == {s[i] : i \in DOMAIN s}

Ids(qs) == {q.id : q \in Range(qs)}

RECURSIVE Cards(_)
Cards(cs) ==
    IF cs = <<>> THEN <<>>
    ELSE [i \in DOMAIN Head(cs).questions |->
             [heading |-> Head(cs).name, q |-> Head(cs).questions[i]]]
         \o Cards(Tail(cs))

HomeCards == Cards(LibData_categories)

PageComplete == Len(page) = Len(HomeCards)

(* The ids the navigation offers as anchors: the sidebar and the floating  *)
(* nav list every category's questions, the command menu its own list      *)
NavAnchors == UNION {Ids(c.questions) : c \in Range(LibData_categories)}

MenuAnchors == Ids(CommandMenu_getAllQuestions)

(* document.getElementById-style lookup: the sections carrying an id *)
SectionsWithId(id) == {i \in DOMAIN page : page[i].q.id = id}

CatalogInit ==
    /\ page = <<>>
    /\ hash = ""

RenderCard ==
    /\ ~PageComplete
    /\ page' = Append(page, HomeCards[Len(page) + 1])
    /\ UNCHANGED <<hash, playground, shell, diagram, viz>>

FollowAnchor(id) ==
    /\ hash' = id
    /\ hash' # hash
    /\ UNCHANGED <<page, playground, shell, diagram, viz>>

CatalogNext ==
    \/ RenderCard
    \/ \E id \in NavAnchors \cup MenuAnchors : FollowAnchor(id)

(***************************************************************************)
(* LayoutShell: CommandMenuProvider with its dialog, triggerCommandMenu,   *)
(* and the listeners Sidebar, CommandMenuProvider and FloatingNav register *)
(***************************************************************************)
KeyEvent(key, ctrlKey, metaKey) ==
    [key |-> key, ctrlKey |-> ctrlKey, metaKey |-> metaKey]

Keys == {"k", "K", "Escape", "a"}

KeyEvents == {KeyEvent(key, c, m) : key \in Keys, c \in BOOLEAN, m \in BOOLEAN}

NoInput == [kind |-> "none", key |-> "", id |-> "", inDialog |-> FALSE]

(* CommandMenuProvider's document listener: setOpen(open => !open) *)
Down_CtrlOnly(o, e) == IF e.key = "k" /\ e.ctrlKey THEN ~o ELSE o

Down(o, e) == IF e.key = "k" /\ (e.metaKey \/ e.ctrlKey) THEN ~o ELSE o

(* CommandMenuDialog's onKeyDown *)
HandleKeyDown_Ignore(o, e) == o

HandleKeyDown(o, e) == IF e.key = "Escape" THEN FALSE ELSE o

(* document.dispatchEvent: every registered listener runs once *)
RECURSIVE Dispatch(_, _, _)
Dispatch(o, e, n) == IF n = 0 THEN o ELSE Dispatch(Down(o, e), e, n - 1)

Href(id) == "/#" \o id

ShellInit ==
    /\ providerMounted = TRUE
    /\ open = FALSE
    /\ route = "/"
    /\ keydownListeners = 1
    /\ sidebarMounted = FALSE
    /\ hashListeners = 0
    /\ floatingMounted = TRUE
    /\ observers = {0}
    /\ renders = 0
    /\ lastInput = NoInput

(* A key pressed by the user: with the dialog open the focus is inside it, *)
(* so the dialog's onKeyDown runs and the event bubbles on to document     *)
KeyDown(e) ==
    /\ providerMounted
    /\ open' = Dispatch(IF open THEN HandleKeyDown(open, e) ELSE open,
                        e, keydownListeners)
    /\ lastInput' = [kind |-> "keydown", key |-> e.key, id |-> "",
                     inDialog |-> open]
    /\ UNCHANGED <<providerMounted, route, keydownListeners, sidebarMounted,
                   hashListeners, floatingMounted, observers, renders,
                   playground, catalog, diagram, viz>>

TriggerCommandMenu ==
    /\ providerMounted
    /\ open' = Dispatch(open, KeyEvent("k", TRUE, FALSE), keydownListeners)
    /\ lastInput' = [NoInput EXCEPT !.kind = "trigger"]
    /\ UNCHANGED <<providerMounted, route, keydownListeners, sidebarMounted,
                   hashListeners, floatingMounted, observers, renders,
                   playground, catalog, diagram, viz>>

NavigateToQuestion(id) ==
    /\ providerMounted
    /\ open
    /\ route' = Href(id)
    /\ open' = FALSE
    /\ lastInput' = [NoInput EXCEPT !.kind = "select", !.id = id]
    /\ UNCHANGED <<providerMounted, keydownListeners, sidebarMounted,
                   hashListeners, floatingMounted, observers, renders,
                   playground, catalog, diagram, viz>>

(* onOpenChange={setOpen}: the dialog asks to close (click outside it) *)
OnOpenChange ==
    /\ providerMounted
    /\ open
    /\ open' = FALSE
    /\ lastInput' = [NoInput EXCEPT !.kind = "dismiss"]
    /\ UNCHANGED <<providerMounted, route, keydownListeners, sidebarMounted,
                   hashListeners, floatingMounted, observers, renders,
                   playground, catalog, diagram, viz>>

(* CommandMenuProvider's effect adds the keydown listener on mount and its *)
(* cleanup removes it on unmount; a re-render does not run it again        *)
ProviderMount ==
    /\ ~providerMounted
    /\ renders < MaxRenders
    /\ renders' = renders + 1
    /\ providerMounted' = TRUE
    /\ open' = FALSE
    /\ keydownListeners' = keydownListeners + 1
    /\ lastInput' = NoInput
    /\ UNCHANGED <<route, sidebarMounted, hashListeners, floatingMounted,
                   observers, playground, catalog, diagram, viz>>

ProviderRender ==
    /\ providerMounted
    /\ renders < MaxRenders
    /\ renders' = renders + 1
    /\ UNCHANGED <<providerMounted, open, route, keydownListeners,
                   sidebarMounted, hashListeners, floatingMounted, observers,
                   lastInput, playground, catalog, diagram, viz>>

ProviderUnmount ==
    /\ providerMounted
    /\ providerMounted' = FALSE
    /\ open' = FALSE
    /\ keydownListeners' = keydownListeners - 1
    /\ lastInput' = NoInput
    /\ UNCHANGED <<route, sidebarMounted, hashListeners, floatingMounted,
                   observers, renders, playground, catalog, diagram, viz>>

(* Sidebar calls window.addEventListener in its function body *)
SidebarMount ==
    /\ ~sidebarMounted
    /\ renders < MaxRenders
    /\ renders' = renders + 1
    /\ sidebarMounted' = TRUE
    /\ hashListeners' = hashListeners + 1
    /\ UNCHANGED <<providerMounted, open, route, keydownListeners,
                   floatingMounted, observers, lastInput,
                   playground, catalog, diagram, viz>>

SidebarRender ==
    /\ sidebarMounted
    /\ renders < MaxRenders
    /\ renders' = renders + 1
    /\ hashListeners' = hashListeners + 1
    /\ UNCHANGED <<providerMounted, open, route, keydownListeners,
                   sidebarMounted, floatingMounted, observers, lastInput,
                   playground, catalog, diagram, viz>>

SidebarUnmount ==
    /\ sidebarMounted
    /\ sidebarMounted' = FALSE
    /\ UNCHANGED <<providerMounted, open, route, keydownListeners,
                   hashListeners, floatingMounted, observers, renders,
                   lastInput, playground, catalog, diagram, viz>>

(* FloatingNav's effect creates an IntersectionObserver on mount and its   *)
(* cleanup disconnects it on unmount                                       *)
FloatingNavMount ==
    /\ ~floatingMounted
    /\ renders < MaxRenders
    /\ renders' = renders + 1
    /\ floatingMounted' = TRUE
    /\ observers' = observers \cup {renders'}
    /\ UNCHANGED <<providerMounted, open, route, keydownListeners,
                   sidebarMounted, hashListeners, lastInput,
                   playground, catalog, diagram, viz>>

FloatingNavRender ==
    /\ floatingMounted
    /\ renders < MaxRenders
    /\ renders' = renders + 1
    /\ UNCHANGED <<providerMounted, open, route, keydownListeners,
                   sidebarMounted, hashListeners, floatingMounted, observers,
                   lastInput, playground, catalog, diagram, viz>>

FloatingNavUnmount ==
    /\ floatingMounted
    /\ floatingMounted' = FALSE
    /\ observers' = {}
    /\ UNCHANGED <<providerMounted, open, route, keydownListeners,
                   sidebarMounted, hashListeners, renders, lastInput,
                   playground, catalog, diagram, viz>>

ShellNext ==
    \/ \E e \in KeyEvents : KeyDown(e)
    \/ TriggerCommandMenu
    \/ \E q \in Range(CommandMenu_getAllQuestions) : NavigateToQuestion(q.id)
    \/ OnOpenChange
    \/ ProviderMount
    \/ ProviderRender
    \/ ProviderUnmount
    \/ SidebarMount
    \/ SidebarRender
    \/ SidebarUnmount
    \/ FloatingNavMount
    \/ FloatingNavRender
    \/ FloatingNavUnmount

(***************************************************************************)
(* MermaidDiagram: each change of the chart prop starts mermaid.render and *)
(* the promise's callback writes the SVG into the container                *)
(***************************************************************************)
Charts == {"graph A", "graph B", "graph C"}

InitialChart == "graph A"

Svg(c) == "<svg>" \o c \o "</svg>"

Detached == "detached"

(* A render in flight: `live` is whether the containerRef its callback     *)
(* closes over still points at an element                                  *)
Pending(c) == [chart |-> c, live |-> TRUE]

Remove(s, i) == SubSeq(s, 1, i - 1) \o SubSeq(s, i + 1, Len(s))

DiagramInit ==
    /\ chart = InitialChart
    /\ pending = <<Pending(InitialChart)>>
    /\ container = ""
    /\ diagramMounted = TRUE

ChartChange(c) ==
    /\ diagramMounted
    /\ c # chart
    /\ Len(pending) < MaxPending
    /\ chart' = c
    /\ pending' = Append(pending, Pending(c))
    /\ UNCHANGED <<container, diagramMounted, playground, shell, catalog, viz>>

RenderResolve(i) ==
    /\ i \in DOMAIN pending
    /\ pending' = Remove(pending, i)
    /\ container' = IF pending[i].live THEN Svg(pending[i].chart)
                    ELSE container
    /\ UNCHANGED <<chart, diagramMounted, playground, shell, catalog, viz>>

DiagramUnmount ==
    /\ diagramMounted
    /\ diagramMounted' = FALSE
    /\ container' = Detached
    /\ pending' = [i \in DOMAIN pending |-> [pending[i] EXCEPT !.live = FALSE]]
    /\ UNCHANGED <<chart, playground, shell, catalog, viz>>

DiagramMount ==
    /\ ~diagramMounted
    /\ Len(pending) < MaxPending
    /\ diagramMounted' = TRUE
    /\ container' = ""
    /\ pending' = Append(pending, Pending(chart))
    /\ UNCHANGED <<chart, playground, shell, catalog, viz>>

DiagramNext ==
    \/ \E c \in Charts : ChartChange(c)
    \/ \E i \in 1..MaxPending : RenderResolve(i)
    \/ DiagramUnmount
    \/ DiagramMount

(***************************************************************************)
(* ConceptCard.renderVisualization                                         *)
(***************************************************************************)
Absent == [t |-> "undefined"]

Array(n) == [t |-> "array", n |-> n]

Text(s) == [t |-> "string", s |-> s]

Truthy(d) == d.t = "array" \/ (d.t = "string" /\ d.s # "")

ArrayValues == {Absent, Array(0), Array(2)}

ChartValues == {Absent, Text(""), Text("graph TD")}

VisualizationData ==
    [nodes : ArrayValues, edges : ArrayValues, chart : ChartValues,
     events : ArrayValues]

NoVisualization == [type |-> "undefined"]

Types == {"flow", "mermaid", "timeline", "chart"}

Visualizations ==
    {NoVisualization} \cup [type : Types, data : VisualizationData]

Nothing == [component |-> "null"]

RenderVisualization_NodesOnly(v) ==
    IF v = NoVisualization THEN Nothing
    ELSE CASE v.type = "flow" ->
                IF ~Truthy(v.data.nodes) THEN Nothing
                ELSE [component |-> "FlowDiagram", nodes |-> v.data.nodes,
                      edges |-> v.data.edges]
           [] v.type = "mermaid" ->
                IF ~Truthy(v.data.chart) THEN Nothing
                ELSE [component |-> "MermaidDiagram", chart |-> v.data.chart]
           [] v.type = "timeline" ->
                IF ~Truthy(v.data.events) THEN Nothing
                ELSE [component |-> "Timeline", events |-> v.data.events]
           [] OTHER -> Nothing

RenderVisualization(v) ==
    IF v = NoVisualization THEN Nothing
    ELSE CASE v.type = "flow" ->
                IF ~Truthy(v.data.nodes) \/ ~Truthy(v.data.edges) THEN Nothing
                ELSE [component |-> "FlowDiagram", nodes |-> v.data.nodes,
                      edges |-> v.data.edges]
           [] v.type = "mermaid" ->
                IF ~Truthy(v.data.chart) THEN Nothing
                ELSE [component |-> "MermaidDiagram", chart |-> v.data.chart]
           [] v.type = "timeline" ->
                IF ~Truthy(v.data.events) THEN Nothing
                ELSE [component |-> "Timeline", events |-> v.data.events]
           [] OTHER -> Nothing

(* A question without a visualization *)
VizInit ==
    /\ visualization = NoVisualization
    /\ rendered = RenderVisualization(visualization)

(* The card is rendered with another question's visualization prop *)
VisualizationChange(v) ==
    /\ v # visualization
    /\ visualization' = v
    /\ rendered' = RenderVisualization(v)
    /\ UNCHANGED <<playground, shell, catalog, diagram>>

VizNext == \E v \in Visualizations : VisualizationChange(v)

(***************************************************************************)
(* The page after construction, and the specifications                     *)
(***************************************************************************)
Init ==
    /\ PlaygroundInit
    /\ ShellInit
    /\ CatalogInit
    /\ DiagramInit
    /\ VizInit

Next ==
    \/ \E value \in EditorValues : OnChange(value)
    \/ Render
    \/ RunClick
    \/ RunReturn
    \/ SnippetLog
    \/ SnippetGlobal
    \/ SnippetTestGlobal
    \/ SnippetSetTimeout
    \/ SnippetSetValue
    \/ SnippetClickRun
    \/ SnippetStackOverflow
    \/ TimerFire
    \/ ToggleExpanded
    \/ \E example \in Examples : PropChange(example)
    \/ Unmount
    \/ Remount

Spec == Init /\ [][Next]_vars

(***************************************************************************)
(* Fairness: runCode runs to completion on the host thread, so a step of   *)
(* an activation that can be taken is taken                                *)
(***************************************************************************)
RunStep ==
    \/ RunReturn
    \/ SnippetLog
    \/ SnippetGlobal
    \/ SnippetTestGlobal
    \/ SnippetSetTimeout
    \/ SnippetSetValue
    \/ SnippetClickRun
    \/ SnippetStackOverflow

FairSpec == Spec /\ WF_vars(RunStep)

(***************************************************************************)
(* The copy path on its own: edits, re-renders, Copy clicks and the        *)
(* clipboard's answers                                                     *)
(***************************************************************************)
CopyNext ==
    \/ \E value \in EditorValues : OnChange(value)
    \/ Render
    \/ CopyClick
    \/ \E ok \in BOOLEAN : ClipboardSettle(ok)

CopySpec == Init /\ [][CopyNext]_vars

(***************************************************************************)
(* The shell, the catalog, the diagram and the visualization switch, each  *)
(* on its own                                                              *)
(***************************************************************************)
ShellSpec == Init /\ [][ShellNext]_vars

CatalogSpec == Init /\ [][CatalogNext]_vars

DiagramSpec == Init /\ [][DiagramNext]_vars

VizSpec == Init /\ [][VizNext]_vars

(***************************************************************************)
(* What the page shows: the output panel is in the JSX only for a truthy   *)
(* `output`                                                                *)
(***************************************************************************)
PanelShown == renderedOutput # ""

Completed == lastRun.kind # "none"

(***************************************************************************)
(* The formatting and error kinds the specification asks for               *)
(***************************************************************************)
RuntimeErrorLabel == "RuntimeError"

SyntaxErrorLabel == "SyntaxError"

Placeholder == "<unserializable value>"

Canonical(v) ==
    CASE v.t = "undefined" -> "undefined"
      [] v.t = "number"    -> NumToStr(v.n)
      [] v.t = "string"    -> v.s
      [] OTHER             -> Placeholder

RECURSIVE JoinLines(_)
JoinLines(lines) ==
    IF lines = <<>> THEN ""
    ELSE IF Len(lines) = 1 THEN lines[1]
    ELSE lines[1] \o "\n" \o JoinLines(Tail(lines))

(***************************************************************************)
(* C1: a run request that arrives while an earlier run has not completed   *)
(* is rejected, so at most one execution of runCode is in flight.          *)
(***************************************************************************)
C1_AtMostOneRunInFlight == Len(stack) <= 1

(***************************************************************************)
(* C2: a run executes exactly the text that was in the buffer (the `code`  *)
(* state) at the moment Run was invoked, also when the last edit has not   *)
(* been re-rendered yet, and later edits do not change what it executes.   *)
(***************************************************************************)
C2_RunExecutesBufferAtInvocation ==
    \A i \in DOMAIN stack : stack[i].text = stack[i].buf

(***************************************************************************)
(* C3: every run eventually completes (a snippet that outlives its budget  *)
(* is terminated): whenever a run is in flight, later none is.             *)
(***************************************************************************)
C3_EveryRunCompletes == (~Idle) ~> Idle

(***************************************************************************)
(* C4: no exception escapes runCode, and every activation that has         *)
(* returned stored a display text.                                         *)
(***************************************************************************)
C4_NoExceptionEscapes == ~uncaught /\ (Completed => lastRun.set)

(***************************************************************************)
(* C5: once a run has completed and stored its outcome and the component   *)
(* has re-rendered, the output panel is shown with a non-blank text.       *)
(***************************************************************************)
C5_VisibleOutcomeAfterRun ==
    (Idle /\ Completed /\ lastRun.set /\ renderedOutput = output) => PanelShown

(***************************************************************************)
(* C6: for a snippet that throws an Error with message m while executing,  *)
(* the stored display text is "RuntimeError: m".                           *)
(***************************************************************************)
C6_ThrownDisplaysKindAndMessage ==
    (lastRun.kind = "throw" /\ lastRun.v.t = "error") =>
        /\ lastRun.set
        /\ lastRun.out = RuntimeErrorLabel \o ": " \o lastRun.v.s

(***************************************************************************)
(* C7: for a non-empty snippet that returns a value v, the run is a        *)
(* success and the stored display text is the canonical stringification    *)
(* of v (strings unquoted, unserializable values as a placeholder).        *)
(***************************************************************************)
C7_ReturnedValueDisplayed ==
    (lastRun.kind = "return" /\ lastRun.text # "") =>
        /\ lastRun.set
        /\ lastRun.toast = "success"
        /\ lastRun.out = Canonical(lastRun.v)

(***************************************************************************)
(* C8: running the empty buffer executes nothing and is reported as the    *)
(* error Thrown("empty source", SyntaxError), not as a success.            *)
(***************************************************************************)
C8_EmptySourceIsError ==
    (Completed /\ lastRun.text = "") =>
        /\ lastRun.kind = "syntax"
        /\ lastRun.toast = "error"
        /\ lastRun.out = SyntaxErrorLabel \o ": " \o "empty source"

(***************************************************************************)
(* C9: a snippet has no effect on host state: the global object gains no   *)
(* property, nothing reaches the real console, and the buffer is not       *)
(* changed while a run is in flight.                                       *)
(***************************************************************************)
C9_SnippetLeavesHostUntouched ==
    /\ globals = {}
    /\ realConsole = <<>>
    /\ ~Idle => code = stack[1].buf

(***************************************************************************)
(* C10: for a snippet that logs lines l1..ln and returns v, the stored     *)
(* display text is the lines joined with newlines followed by the          *)
(* formatted v.                                                            *)
(***************************************************************************)
C10_ConsoleOutputCaptured ==
    (lastRun.kind = "return" /\ lastRun.logs # <<>>) =>
        /\ lastRun.set
        /\ lastRun.out = JoinLines(lastRun.logs) \o "\n" \o Canonical(lastRun.v)

(***************************************************************************)
(* C11: each activation of runCode stores the output exactly once and      *)
(* issues exactly one of the success and error notifications.              *)
(***************************************************************************)
Stores(run) == IF run.set THEN 1 ELSE 0

Notifications(run) == IF run.toast \in {"success", "error"} THEN 1 ELSE 0

C11_OneStoreOneNotification ==
    Completed => (Stores(lastRun) = 1 /\ Notifications(lastRun) = 1)

(***************************************************************************)
(* C12: the status goes idle -> running -> done -> running -> ..., never   *)
(* back to idle, and it becomes done only once the formatted outcome of    *)
(* the run is stored in the display.                                       *)
(***************************************************************************)
Status ==
    IF ~Idle THEN "running" ELSE IF Completed THEN "done" ELSE "idle"

C12_StatusLifecycle ==
    [][/\ Status = "idle" => Status' \in {"idle", "running"}
       /\ Status = "running" => Status' \in {"running", "done"}
       /\ Status = "done" => Status' \in {"done", "running"}
       /\ (Status = "running" /\ Status' = "done") =>
             (lastRun'.set /\ output' = lastRun'.out)]_vars

(***************************************************************************)
(* C13: an edit reporting t sets the buffer to t ('' when the editor       *)
(* reports no value), leaves the output unchanged and starts no run; the   *)
(* same holds for a change event raised while a snippet runs.              *)
(***************************************************************************)
C13_EditOnlyReplacesBuffer ==
    [][/\ \A value \in EditorValues :
            OnChange(value) =>
               /\ code' = (IF value.def THEN value.s ELSE "")
               /\ output' = output
               /\ renderedOutput' = renderedOutput
               /\ stack' = stack
               /\ runs' = runs
       /\ SnippetSetValue =>
               /\ output' = output
               /\ Len(stack') = Len(stack)
               /\ runs' = runs]_vars

C13_Witness ==
    /\ mounted
    /\ Idle
    /\ code = ""
    /\ renderedCode # ""
    /\ output = "4"

(***************************************************************************)
(* C14: when a run of a text returns right after a completed run of the    *)
(* same text, it yields the same outcome variant and the same display      *)
(* text as that run.                                                       *)
(***************************************************************************)
C14_RepeatedRunSameOutcome ==
    [][(/\ Len(stack) = 1
        /\ stack' = <<>>
        /\ lastRun.depth = 1
        /\ lastRun.text = stack[1].text) =>
           /\ lastRun'.kind = lastRun.kind
           /\ lastRun'.set = lastRun.set
           /\ lastRun'.out = lastRun.out]_vars

(***************************************************************************)
(* C15: unmounting the playground cancels its runs: no work scheduled by   *)
(* a snippet is still pending once the component is unmounted.             *)
(***************************************************************************)
C15_UnmountCancelsScheduledWork == ~mounted => timers = {}

(***************************************************************************)
(* C16: a run does not block the host: while a run is in flight the host   *)
(* can process an edit, a copy or a navigation away.                       *)
(***************************************************************************)
HostEvent ==
    \/ \E value \in EditorValues : OnChange(value)
    \/ CopyClick
    \/ Unmount

C16_HostResponsiveDuringRun == ~Idle => ENABLED HostEvent

(***************************************************************************)
(* C17: a source that does not compile is reported as "SyntaxError: msg"   *)
(* with nothing executed, and an exception thrown while the snippet        *)
(* executes is never reported under the kind SyntaxError.                  *)
(***************************************************************************)
C17_SyntaxErrorKindDistinct ==
    /\ lastRun.kind = "syntax" =>
          /\ lastRun.logs = <<>>
          /\ lastRun.set
          /\ lastRun.toast = "error"
          /\ lastRun.out = SyntaxErrorLabel \o ": " \o lastRun.v.s
    /\ (lastRun.kind = "throw" /\ lastRun.set /\ lastRun.v.t = "error") =>
          lastRun.out # SyntaxErrorLabel \o ": " \o lastRun.v.s

(***************************************************************************)
(* C18: the copy success notification is issued only after the clipboard   *)
(* write has completed successfully, and a rejected write is signalled as  *)
(* a failure.                                                              *)
(***************************************************************************)
C18_CopyReportsClipboardResult ==
    /\ clipboard.toast = "success" => clipboard.st = "written"
    /\ clipboard.st = "rejected" => clipboard.toast = "error"

(***************************************************************************)
(* C19: the buffer starts as the question's example and afterwards changes *)
(* only by an edit of the user or a remount; a run, expanding or           *)
(* collapsing the card and a new initialCode prop leave it unchanged.      *)
(***************************************************************************)
C19_BufferChangesOnlyByUserEdit ==
    [][code' # code =>
          \/ \E value \in EditorValues : OnChange(value)
          \/ Remount]_vars

(***************************************************************************)
(* C20: the display is the outcome of the most recently requested run      *)
(* that has completed: when an activation returns after a run requested    *)
(* later than it has completed and stored its outcome, the display keeps   *)
(* that later run's outcome.                                               *)
(***************************************************************************)
C20_DisplayIsLatestRequestedRun ==
    [][(/\ ~Idle
        /\ Len(stack') = Len(stack) - 1
        /\ lastRun.depth > Len(stack)
        /\ lastRun.set) =>
           output' = lastRun.out]_vars

(***************************************************************************)
(* C21: every subscription a component registers is released on teardown:  *)
(* the live hashchange listeners, keydown listeners and intersection       *)
(* observers number as many as the mounted Sidebar, CommandMenuProvider    *)
(* and FloatingNav instances, and none is left once all are unmounted.     *)
(***************************************************************************)
Instances(isMounted) == IF isMounted THEN 1 ELSE 0

C21_SubscriptionsReleasedOnTeardown ==
    /\ hashListeners = Instances(sidebarMounted)
    /\ keydownListeners = Instances(providerMounted)
    /\ Cardinality(observers) = Instances(floatingMounted)

(***************************************************************************)
(* C22: the catalog follows the PRD's numbering: the combined list holds   *)
(* exactly 35 questions numbered 1..35 without repetition, each category   *)
(* lists exactly the numbers the PRD assigns to it, and so every card on   *)
(* the page carries a number of its heading's range.                       *)
(***************************************************************************)
Numbers(qs) == {q.number : q \in Range(qs)}

C22_CatalogFollowsPrdNumbering ==
    /\ \A i \in DOMAIN page : page[i].q.number \in PrdNumbers(page[i].heading)
    /\ PageComplete =>
          /\ Len(questions) = PrdQuestionCount
          /\ Numbers(questions) = 1..PrdQuestionCount
          /\ \A c \in Range(categories) :
                /\ Len(c.questions) = Cardinality(PrdNumbers(c.name))
                /\ Numbers(c.questions) = PrdNumbers(c.name)

(***************************************************************************)
(* C23: a keydown of 'k' with Ctrl or Meta held toggles the open flag      *)
(* once, every other keydown leaves it unchanged, and triggerCommandMenu() *)
(* has the effect of one Ctrl+K.                                           *)
(***************************************************************************)
IsShortcut(e) == e.key = "k" /\ (e.ctrlKey \/ e.metaKey)

C24_SelectAndEscapeCloseMenu ==
    /\ lastInput.kind = "select" =>
          /\ ~open
          /\ route = "/#" \o lastInput.id
    /\ (/\ lastInput.kind = "keydown"
        /\ lastInput.key = "Escape"
        /\ lastInput.inDialog) => ~open

C24_Witness ==
    /\ lastInput.kind = "select"
    /\ lastInput.id = "closures"
    /\ route = "/#closures"
    /\ ~open

(***************************************************************************)
(* C25: question ids are pairwise distinct across the catalog, so no two   *)
(* sections of the page carry the same DOM id and an anchor '#<id>' of the *)
(* navigation designates exactly one section of the rendered page.         *)
(***************************************************************************)
C25_QuestionIdsPairwiseDistinct ==
    /\ \A i, j \in DOMAIN page : i # j => page[i].q.id # page[j].q.id
    /\ PageComplete =>
          /\ Cardinality(Ids(questions)) = Len(questions)
          /\ hash # "" => Cardinality(SectionsWithId(hash)) = 1

(***************************************************************************)
(* C26: the command menu offers exactly the questions the page renders:    *)
(* the ids of the getAllQuestions it imports are the ids of the categories *)
(* Home and the navigation lists iterate over.                             *)
(***************************************************************************)
C26_MenuOffersWhatPageRenders ==
    /\ \A i \in DOMAIN page : page[i].q.id \in MenuAnchors
    /\ PageComplete =>
          /\ MenuAnchors = {page[i].q.id : i \in DOMAIN page}
          /\ MenuAnchors = NavAnchors

(***************************************************************************)
(* C27: every question listed under a category carries that category's    *)
(* name in its category field, so every card sits under the heading its    *)
(* own category field names and grouping the questions by that field       *)
(* gives each category its own list.                                       *)
(***************************************************************************)
GroupedUnder(name) == {q.id : q \in {x \in Range(questions) : x.category = name}}

C27_QuestionCarriesCategoryName ==
    /\ \A i \in DOMAIN page : page[i].q.category = page[i].heading
    /\ PageComplete =>
          \A c \in Range(categories) :
             /\ \A q \in Range(c.questions) : q.category = c.name
             /\ GroupedUnder(c.name) = Ids(c.questions)

(***************************************************************************)
(* C28: MermaidDiagram shows the latest chart: once every render started   *)
(* for the mounted diagram has resolved, in whatever order, the container  *)
(* holds the SVG of the current chart prop; a render that resolves after   *)
(* the unmount writes nothing.                                             *)
(***************************************************************************)
RendersSettled == \A i \in DOMAIN pending : ~pending[i].live

C28_DiagramShowsLatestChart ==
    /\ (diagramMounted /\ RendersSettled) => container = Svg(chart)
    /\ ~diagramMounted => container = Detached

(***************************************************************************)
(* C29: renderVisualization renders the renderer its type tag selects, and *)
(* only with that type's data: flow needs nodes and edges, mermaid needs   *)
(* chart, timeline needs events; without a visualization, for another type *)
(* tag or without the tagged type's data it renders nothing; the data of   *)
(* the other types has no part in the result.                              *)
(***************************************************************************)
DataPresent(d) == d # Absent /\ d # Text("")

ExpectedRendering(v) ==
    CASE v.type = "flow" ->
            IF DataPresent(v.data.nodes) /\ DataPresent(v.data.edges)
            THEN [component |-> "FlowDiagram", nodes |-> v.data.nodes,
                  edges |-> v.data.edges]
            ELSE Nothing
      [] v.type = "mermaid" ->
            IF DataPresent(v.data.chart)
            THEN [component |-> "MermaidDiagram", chart |-> v.data.chart]
            ELSE Nothing
      [] v.type = "timeline" ->
            IF DataPresent(v.data.events)
            THEN [component |-> "Timeline", events |-> v.data.events]
            ELSE Nothing
      [] OTHER -> Nothing

C29_VisualizationByTypeAndData ==
    /\ visualization = NoVisualization => rendered = Nothing
    /\ visualization # NoVisualization =>
          rendered = ExpectedRendering(visualization)

C29_Witness ==
    /\ visualization # NoVisualization
    /\ visualization.type = "flow"
    /\ DataPresent(visualization.data.chart)
    /\ DataPresent(visualization.data.events)
    /\ rendered # Nothing
    /\ rendered.component = "FlowDiagram"

====
